---------------------------- MODULE Spec2Model ----------------------------
(***************************************************************************)
(* A model of the fork-join sort of include/daw/fj_sort.h (partition_range,*)
(* reduce_futures2, reduce_futures, parallel_sort_merger, fj_sort) and of  *)
(* the promise cell of include/daw/call_dag.h.                             *)
(*                                                                         *)
(* Positions are offsets from `first`: the caller's range is [0, range_sz).*)
(* The specifications share the variables:                                 *)
(*   PartSpec     partition_range, one loop iteration per step             *)
(*   Spec         fj_sort: partition, boost::async segment sorts, the      *)
(*                .then merge continuations, the final wait                *)
(*   FailSpec     the same under a comparator that may throw               *)
(*   ScenarioSpec the same on the sequence 5,3,1,4,2 and its prefixes      *)
(*   PromiseSpec  daw::promise: set, set_value, set_exception,             *)
(*                set_continuation, wait, get, has_value, has_exception    *)
(*   PromiseFairSpec  the same, where a started member function goes on    *)
(***************************************************************************)
EXTENDS Integers, Sequences, FiniteSets

\* ------------------------------------------------------------- bounds
MaxLen   == 5      \* longest caller range sorted by fj_sort
MaxFailLen == 4    \* the same, under a comparator that may throw
MaxRange == 8      \* longest range handed to partition_range alone
MaxHw    == 3      \* largest std::thread::hardware_concurrency( )
MaxSpans == 10     \* growth of the result vector that is followed
MaxVal   == 2      \* element values are 1..MaxVal
MaxThreads == 3    \* threads that use one promise
MaxOps   == 3      \* operations started on the promise

Values == 1..MaxVal

VARIABLES
    \* partition_range
    hw,          \* std::thread::hardware_concurrency( )
    range_sz,    \* std::distance( first, last )
    part_sz,     \* range_sz / hardware_concurrency
    start_pos,   \* loop variable
    result,      \* std::vector<span>: sequence of <<begin, end>>
    ppc,         \* position in partition_range
    \* fj_sort
    input,       \* the caller's sequence as it was at the call
    mem,         \* the caller's sequence followed by the memory behind it
    argOrder,    \* the build's evaluation order of function arguments, once seen
    bad,         \* the value the comparator throws on (0: it never throws)
    pc,          \* position of the calling thread in fj_sort
    sorters,     \* std::vector<boost::future<span>>: ids into futs
    futs,        \* the shared states of the boost futures
    results,     \* the vector of futures of the current reduction level
    final,       \* the future returned by reduce_futures (0: none)
    ret,         \* how fj_sort came back to its caller
    emptyFront,  \* results.front( ) was evaluated on an empty vector
    \* daw::promise
    m_result,    \* the variant: [index, val]
    m_mutex,     \* the thread that owns the mutex (0: none)
    th,          \* per thread: where it is in its operation, and its locals
    calls,       \* the invocations of stored continuations, in order
    funcCalls,   \* the invocations of the function given to set_continuation
    taken,       \* the calls <<op, idx>> of set that moved a continuation out
    nops,        \* operations started so far
    dead,        \* how the process ended ("no": it runs)
    producer     \* the task posted by packaged_task: "alive" or "gone"

pvars == <<hw, range_sz, part_sz, start_pos, result, ppc>>
svars == <<input, mem, argOrder, bad, pc, sorters, futs, results,
           final, ret, emptyFront>>
qvars == <<m_result, m_mutex, th, calls, funcCalls, taken, nops, dead, producer>>
vars == <<pvars, svars, qvars>>

Threads == 1..MaxThreads

\* a thread outside every operation of the promise
\*   pc     where it is          fn    the public function it called
\*   op     number of the call   idx, val, notify   the arguments of set
\*   ftmp   the local ftmp of set (0: an empty std::function)
\*   out    what its last wait or get gave back
IdleThread ==
    [pc |-> "idle", fn |-> "none", op |-> 0, idx |-> 0, val |-> 0,
     notify |-> TRUE, ftmp |-> 0, out |-> <<"none", 0>>]

\* the promise, untouched
PromiseIdle ==
    /\ m_result = [index |-> 0, val |-> 0]
    /\ m_mutex = 0
    /\ th = [t \in Threads |-> IdleThread]
    /\ calls = <<>>
    /\ funcCalls = <<>>
    /\ taken = {}
    /\ nops = 0
    /\ dead = "no"
    /\ producer = "alive"

\* ------------------------------------------------------ partition_range
\* span( first + start_pos, first + start_pos + part_sz )
LoopSpan(sp, psz) == <<sp, sp + psz>>

\* span( first + start_pos, first + start_pos + ( range_sz - start_pos ) )
TailSpan(sp, rsz) == <<sp, sp + (rsz - sp)>>

\* the statements after the for loop: the remainder, then return
AfterLoop(res, sp, rsz) ==
    IF sp < rsz THEN Append(res, TailSpan(sp, rsz)) ELSE res

\* the whole function where its loop ends (part_sz > 0 or an empty range)
RECURSIVE PartitionFrom(_, _, _, _)
PartitionFrom(res, sp, psz, rsz) ==
    IF sp < rsz
      THEN PartitionFrom(Append(res, LoopSpan(sp, psz)), sp + psz, psz, rsz)
      ELSE AfterLoop(res, sp, rsz)

partition_range(rsz, h) == PartitionFrom(<<>>, 0, rsz \div h, rsz)

PartInit ==
    /\ hw \in 0..MaxHw
    /\ range_sz \in 0..MaxRange
    /\ part_sz = 0
    /\ start_pos = 0
    /\ result = <<>>
    /\ ppc = "entry"
    /\ input = <<>>
    /\ mem = <<>>
    /\ argOrder = "unseen"
    /\ bad = 0
    /\ pc = "idle"
    /\ sorters = <<>>
    /\ futs = <<>>
    /\ results = <<>>
    /\ final = 0
    /\ ret = "none"
    /\ emptyFront = FALSE
    /\ PromiseIdle

\* part_sz = range_sz / hardware_concurrency( ). A zero divisor is undefined:
\* the division traps, or (no trapping divide) yields a quotient: 0 is taken.
PartDivide ==
    /\ ppc = "entry"
    /\ \/ /\ hw > 0
          /\ part_sz' = range_sz \div hw
          /\ ppc' = "loop"
       \/ /\ hw = 0
          /\ part_sz' = 0
          /\ ppc' \in {"trap", "loop"}
    /\ UNCHANGED <<hw, range_sz, start_pos, result, svars, qvars>>

\* one iteration of for( ; start_pos < range_sz; start_pos += part_sz )
PartLoop ==
    /\ ppc = "loop"
    /\ start_pos < range_sz
    /\ Len(result) < MaxSpans
    /\ result' = Append(result, LoopSpan(start_pos, part_sz))
    /\ start_pos' = start_pos + part_sz
    /\ UNCHANGED <<hw, range_sz, part_sz, ppc, svars, qvars>>

\* loop exit, the if after it, and the return
PartReturn ==
    /\ ppc = "loop"
    /\ ~(start_pos < range_sz)
    /\ result' = AfterLoop(result, start_pos, range_sz)
    /\ ppc' = "returned"
    /\ UNCHANGED <<hw, range_sz, part_sz, start_pos, svars, qvars>>

PartNext == PartDivide \/ PartLoop \/ PartReturn

PartSpec == PartInit /\ [][PartNext]_vars

\* ------------------------------------------------------------- memory
\* std::sort's result on a sequence: the ordered arrangement of its elements
RECURSIVE InsertSorted(_, _)
InsertSorted(x, s) ==
    IF s = <<>> THEN <<x>>
    ELSE IF x < Head(s) THEN <<x>> \o s
    ELSE <<Head(s)>> \o InsertSorted(x, Tail(s))

RECURSIVE std_sort(_)
std_sort(s) == IF s = <<>> THEN <<>> ELSE InsertSorted(Head(s), std_sort(Tail(s)))

\* a merge that takes the whole left range first
MergeSeq_Concat(a, b) == a \o b

\* the stable merge of two sequences: an element of b goes first only when
\* it is less than the element of a at hand
RECURSIVE MergeSeq(_, _)
MergeSeq(a, b) ==
    IF a = <<>> THEN b
    ELSE IF b = <<>> THEN a
    ELSE IF Head(b) < Head(a) THEN <<Head(b)>> \o MergeSeq(a, Tail(b))
    ELSE <<Head(a)>> \o MergeSeq(Tail(a), b)

\* m with the cells at offsets [b, e) replaced by the sequence s
Splice(m, b, e, s) ==
    [i \in 1..Len(m) |-> IF b < i /\ i <= e THEN s[i - b] ELSE m[i]]

\* a sorter that leaves its range as it is
sort_fn_Nothing(m, sp) == m

\* sorter( cur_range.begin( ), cur_range.end( ), comp ): std::sort in place
sort_fn(m, sp) == Splice(m, sp[1], sp[2], std_sort(SubSeq(m, sp[1] + 1, sp[2])))

\* std::inplace_merge( l.begin( ), l.end( ), r.end( ), cmp )
inplace_merge(m, b, mid, e) ==
    Splice(m, b, e, MergeSeq(SubSeq(m, b + 1, mid), SubSeq(m, mid + 1, e)))

\* parallel_sort_merger::operator( ): the memory after it, and the span it returns
merger_mem(m, l, r) == inplace_merge(m, l[1], l[2], r[2])
\* a merger that returns the right span alone
merger_span_Right(l, r) == <<r[1], r[2]>>

merger_span(l, r) == <<l[1], r[2]>>

\* comp( a, b ) throws: the comparator fails on the pairs that hold `bad`
CompThrows(a, b) == bad # 0 /\ (a = bad \/ b = bad)

\* std::sort compares every element of a sequence of two or more; the
\* exception leaves the segment as the throwing call found it
SortThrows(s) == Len(s) >= 2 /\ \E i \in 1..Len(s) : CompThrows(s[i], s[i])

\* the comparisons of the merge, in its order: comp( *right, *left )
RECURSIVE MergeThrows(_, _)
MergeThrows(a, b) ==
    IF a = <<>> \/ b = <<>> THEN FALSE
    ELSE IF CompThrows(Head(b), Head(a)) THEN TRUE
    ELSE IF Head(b) < Head(a) THEN MergeThrows(a, Tail(b))
    ELSE MergeThrows(Tail(a), b)

IsSorted(s) == \A i \in 1..(Len(s) - 1) : s[i] <= s[i + 1]

RECURSIVE SeqsOfLen(_, _)
SeqsOfLen(S, n) ==
    IF n = 0 THEN {<<>>}
    ELSE {Append(s, x) : s \in SeqsOfLen(S, n - 1), x \in S}

SeqsUpTo(S, n) == UNION {SeqsOfLen(S, k) : k \in 0..n}

\* how far the spans of partition_range reach behind `last`
Overrun(rsz, h) ==
    IF h = 0 \/ rsz \div h = 0 THEN 0
    ELSE LET r == partition_range(rsz, h)
         IN  IF r = <<>> THEN 0 ELSE r[Len(r)][2] - rsz

\* ------------------------------------------------------------ futures
\* The shared state of a boost::future<span>.
\*   st   "pending", "value" or "error" (an exception is stored)
\*   span the span the task was given (async) or returned (then)
\*   l, r the futures a continuation joins (0 for a boost::async task)
\*   at   where its thread is: "running"/"done" for an async task,
\*        "attached", "join", "merging", "done" for a continuation
AsyncFuture(sp) ==
    [st |-> "pending", span |-> sp, l |-> 0, r |-> 0, at |-> "running"]

ThenFuture(lid, rid) ==
    [st |-> "pending", span |-> <<0, 0>>, l |-> lid, r |-> rid, at |-> "attached"]

\* a future that counts as ready whatever its state
IsReady_Always(f) == TRUE

IsReady(f) == f.st # "pending"

\* reduce_futures2: the futures it creates, one .then per pair
NewFutures(lvl) ==
    [k \in 1..(Len(lvl) \div 2) |-> ThenFuture(lvl[2 * k - 1], lvl[2 * k])]

\* a pass that leaves out the unpaired last future
reduce_futures2_DropOdd(lvl, nfuts) ==
    IF Len(lvl) = 1 THEN lvl
    ELSE [k \in 1..(Len(lvl) \div 2) |-> nfuts + k]

\* reduce_futures2: what it writes through out_it, given the number of
\* shared states that exist before the call
reduce_futures2(lvl, nfuts) ==
    IF Len(lvl) = 1 THEN lvl
    ELSE [k \in 1..(Len(lvl) \div 2) |-> nfuts + k]
         \o (IF Len(lvl) % 2 = 1 THEN <<lvl[Len(lvl)]>> ELSE <<>>)

Alive == pc \notin {"crashed"}

\* fj_sort is entered with one of the sequences in inputs, memory cells
\* behind it that hold values of cells, and a comparator that throws on one
\* of the values in bads (0: on none)
SortInitOn(inputs, cells, bads) ==
    /\ hw \in 0..MaxHw
    /\ input \in inputs
    /\ range_sz = Len(input)
    /\ part_sz = 0
    /\ start_pos = 0
    /\ result = <<>>
    /\ ppc = "entry"
    /\ mem \in {input \o g : g \in SeqsOfLen(cells, Overrun(Len(input), hw))}
    /\ argOrder = "unseen"
    /\ bad \in bads
    /\ pc = "spawn"
    /\ sorters = <<>>
    /\ futs = <<>>
    /\ results = <<>>
    /\ final = 0
    /\ ret = "none"
    /\ emptyFront = FALSE
    /\ PromiseIdle

\* fj_sort is entered with a sequence of at most n elements
SortInit(n, bads) == SortInitOn(SeqsUpTo(Values, n), Values, bads)

\* a comparator that never throws
Init == SortInit(MaxLen, {0})

\* a comparator that throws on one value, or on none
FailInit == SortInit(MaxFailLen, {0} \cup Values)

\* one iteration of `for( auto rng : ranges )`: boost::async starts a thread
Spawn ==
    /\ ppc = "returned"
    /\ pc = "spawn"
    /\ Len(sorters) < Len(result)
    /\ futs' = Append(futs, AsyncFuture(result[Len(sorters) + 1]))
    /\ sorters' = Append(sorters, Len(futs) + 1)
    /\ UNCHANGED <<pvars, qvars, input, mem, argOrder, bad, pc, results, final,
                   ret, emptyFront>>

\* the segment sort of one async task, to its end
SortTask(i) ==
    /\ Alive
    /\ futs[i].at = "running"
    /\ LET sp == futs[i].span IN
       \/ /\ ~SortThrows(SubSeq(mem, sp[1] + 1, sp[2]))
          /\ mem' = sort_fn(mem, sp)
          /\ futs' = [futs EXCEPT ![i].st = "value", ![i].at = "done"]
          /\ pc' = pc
       \/ /\ SortThrows(SubSeq(mem, sp[1] + 1, sp[2]))
          /\ futs' = [futs EXCEPT ![i].st = "error", ![i].at = "done"]
          /\ UNCHANGED <<mem, pc>>
       \/ \* the sort works behind `last`: the access may fault
          /\ sp[2] > range_sz
          /\ pc' = "crashed"
          /\ UNCHANGED <<mem, futs>>
    /\ UNCHANGED <<pvars, qvars, input, argOrder, bad, sorters, results, final,
                   ret, emptyFront>>

\* reduce_futures: the first reduce_futures2 on the sorters, then
\* `while( results.size( ) > 1 )`; fs are the shared states so far. The
\* result is the shared states and the last `results` vector.
RECURSIVE ReduceLevels(_, _)
ReduceLevels(lvl, fs) ==
    IF Len(lvl) > 1
      THEN ReduceLevels(reduce_futures2(lvl, Len(fs)), fs \o NewFutures(lvl))
      ELSE [futs |-> fs, results |-> lvl]

reduce_futures(srt, fs) ==
    ReduceLevels(reduce_futures2(srt, Len(fs)), fs \o NewFutures(srt))

\* the vectors of futures reduce_futures goes through: the sorters, then
\* `results` after each call of reduce_futures2 (n shared states exist)
RECURSIVE PassesFrom(_, _)
PassesFrom(lvl, n) ==
    IF Len(lvl) > 1
      THEN <<lvl>> \o PassesFrom(reduce_futures2(lvl, n), n + Len(lvl) \div 2)
      ELSE <<lvl>>

Passes(srt) ==
    <<srt>> \o PassesFrom(reduce_futures2(srt, Len(srt)), Len(srt) + Len(srt) \div 2)

\* reduce_futures( sorters ... ) to its return, and .wait( ) is entered.
\* Attaching a continuation with .then does not block.
ReduceFutures ==
    /\ Alive
    /\ ppc = "returned"
    /\ pc = "spawn"
    /\ Len(sorters) = Len(result)
    /\ LET red == reduce_futures(sorters, futs) IN
       /\ Len(red.results) > 0
       /\ futs' = red.futs
       /\ results' = red.results
       /\ final' = red.results[1]
    /\ pc' = "wait"
    /\ UNCHANGED <<pvars, qvars, input, mem, argOrder, bad, sorters, ret, emptyFront>>

\* reduce_futures on no future: results.front( ) of an empty vector is
\* undefined: the read faults, or a future is made of what lies there and
\* .wait( ) on it returns, throws (no shared state) or never returns
ReduceFuturesEmpty ==
    /\ Alive
    /\ ppc = "returned"
    /\ pc = "spawn"
    /\ Len(sorters) = Len(result)
    /\ LET red == reduce_futures(sorters, futs) IN
       /\ Len(red.results) = 0
       /\ futs' = red.futs
       /\ results' = red.results
    /\ emptyFront' = TRUE
    /\ \/ pc' = "crashed" /\ ret' = ret
       \/ pc' = "hung" /\ ret' = ret
       \/ pc' = "done" /\ ret' \in {"normal", "exception"}
    /\ UNCHANGED <<pvars, qvars, input, mem, argOrder, bad, sorters, final>>

\* boost::future::wait( ) returns once the state is ready; it does not
\* rethrow a stored exception. fj_sort then returns.
WaitReturn ==
    /\ Alive
    /\ pc = "wait"
    /\ IsReady(futs[final])
    /\ pc' = "done"
    /\ ret' = "normal"
    /\ UNCHANGED <<pvars, qvars, input, mem, argOrder, bad, sorters, futs,
                   results, final, emptyFront>>

\* The order in which the build evaluates the two arguments
\* result.get( ) and r.get( ) of binary_func is unspecified; it is the same
\* at every call, and shows only where the left future holds an exception.
ArgOrders == IF argOrder = "unseen" THEN {"LR", "RL"} ELSE {argOrder}

\* The continuation of .then starts on its own thread once the left future
\* is ready. Left first: result.get( ) rethrows a stored exception at once.
\* Otherwise the thread goes on to r.get( ).
ContStart(k) ==
    /\ Alive
    /\ futs[k].at = "attached"
    /\ IsReady(futs[futs[k].l])
    /\ IF futs[futs[k].l].st = "error"
         THEN \E o \in ArgOrders :
                /\ argOrder' = o
                /\ futs' = IF o = "LR"
                             THEN [futs EXCEPT ![k].st = "error", ![k].at = "done"]
                             ELSE [futs EXCEPT ![k].at = "join"]
         ELSE /\ futs' = [futs EXCEPT ![k].at = "join"]
              /\ argOrder' = argOrder
    /\ UNCHANGED <<pvars, qvars, input, mem, bad, pc, sorters,
                   results, final, ret, emptyFront>>

\* a join that hands its inputs to the merger whatever they hold
ContJoin_IgnoreError(k) ==
    /\ Alive
    /\ futs[k].at = "join"
    /\ IsReady(futs[futs[k].r])
    /\ futs' = [futs EXCEPT ![k].at = "merging"]
    /\ UNCHANGED <<pvars, qvars, input, mem, argOrder, bad, pc, sorters,
                   results, final, ret, emptyFront>>

\* r.get( ) returns or throws once the right future is ready
ContJoin(k) ==
    /\ Alive
    /\ futs[k].at = "join"
    /\ IsReady(futs[futs[k].r])
    /\ IF futs[futs[k].l].st = "error" \/ futs[futs[k].r].st = "error"
         THEN futs' = [futs EXCEPT ![k].st = "error", ![k].at = "done"]
         ELSE futs' = [futs EXCEPT ![k].at = "merging"]
    /\ UNCHANGED <<pvars, qvars, input, mem, argOrder, bad, pc, sorters,
                   results, final, ret, emptyFront>>

\* binary_func( parallel_sort_merger, l, r ), to its end
ContMerge(k) ==
    /\ Alive
    /\ futs[k].at = "merging"
    /\ LET l == futs[futs[k].l].span
           r == futs[futs[k].r].span IN
       \/ /\ ~MergeThrows(SubSeq(mem, l[1] + 1, l[2]), SubSeq(mem, r[1] + 1, r[2]))
          /\ mem' = merger_mem(mem, l, r)
          /\ futs' = [futs EXCEPT ![k].st = "value", ![k].at = "done",
                                  ![k].span = merger_span(l, r)]
          /\ pc' = pc
       \/ /\ MergeThrows(SubSeq(mem, l[1] + 1, l[2]), SubSeq(mem, r[1] + 1, r[2]))
          /\ futs' = [futs EXCEPT ![k].st = "error", ![k].at = "done"]
          /\ UNCHANGED <<mem, pc>>
       \/ /\ r[2] > range_sz
          /\ pc' = "crashed"
          /\ UNCHANGED <<mem, futs>>
    /\ UNCHANGED <<pvars, qvars, input, argOrder, bad, sorters, results, final,
                   ret, emptyFront>>

Next ==
    \/ PartDivide \/ PartLoop \/ PartReturn
    \/ Spawn \/ ReduceFutures \/ ReduceFuturesEmpty \/ WaitReturn
    \/ \E i \in 1..Len(futs) : SortTask(i)
    \/ \E k \in 1..Len(futs) : ContStart(k)
    \/ \E k \in 1..Len(futs) : ContJoin(k)
    \/ \E k \in 1..Len(futs) : ContMerge(k)

Spec == Init /\ [][Next]_vars

FailSpec == FailInit /\ [][Next]_vars

\* the sequence of the concrete scenario, and what is in front of it
Scenario == <<5, 3, 1, 4, 2>>

ScenarioInit ==
    SortInitOn({SubSeq(Scenario, 1, n) : n \in 0..Len(Scenario)},
               {Scenario[i] : i \in 1..Len(Scenario)}, {0})

ScenarioSpec == ScenarioInit /\ [][Next]_vars

\* ------------------------------------------------------- daw::promise
\* enum var_pos { pos_empty, pos_eptr, pos_value, pos_cont }
pos_empty == 0
pos_eptr == 1
pos_value == 2
pos_cont == 3

\* the alternatives of variant_t that get, has_value and has_exception name
\* by number: std::variant<std::monostate, T, std::exception_ptr, std::function>
alt_T == 1
alt_eptr == 2

\* set_continuation: `auto result = std::shared_ptr<promise<result_t>>( )`,
\* a pointer that owns nothing (0), to the end of the function
sc_result == 0

\* wprom.lock( ) of the std::weak_ptr made from `result`: what it points to
wprom_lock == sc_result

\* the stored lambda: `if( auto prom = wprom.lock( ); prom )` guards the call
\* of func and the set of the derived promise
LambdaRunsFunc == wprom_lock # 0

\* empty( )
empty(r) == r.index = pos_empty

\* is_ready( )
is_ready(r) == r.index = pos_value \/ r.index = pos_eptr

\* a set that stores over whatever the variant holds
SetBody_Overwrite(r, idx, v) ==
    [res |-> [index |-> idx, val |-> v], ftmp |-> 0, term |-> FALSE]

\* set, inside its lock_guard: the variant after it, the local ftmp, and
\* whether std::get<pos_cont> threw std::bad_variant_access, which ends the
\* process since set is noexcept. A std::function that was moved from is
\* empty (val 0).
SetBody(r, idx, v) ==
    IF empty(r)
      THEN [res |-> [index |-> idx, val |-> v], ftmp |-> 0, term |-> FALSE]
    ELSE IF r.index = pos_cont
      THEN [res |-> [index |-> pos_cont, val |-> 0], ftmp |-> r.val, term |-> FALSE]
    ELSE [res |-> r, ftmp |-> 0, term |-> TRUE]

\* set, after the lock: the calls of ftmp made by `switch( idx )`. The case
\* pos_value has no break and falls through into the case pos_eptr.
Invocations(t, rec) ==
    LET call(a) == [op |-> rec.op, thread |-> t, alt |-> a, val |-> rec.val,
                    idx |-> rec.idx, held |-> m_mutex = t,
                    func |-> LambdaRunsFunc]
    IN  IF rec.idx = pos_value THEN <<call(0), call(1)>>
        ELSE IF rec.idx = pos_eptr THEN <<call(1)>>
        ELSE <<>>

\* Locking a std::mutex the thread already owns is undefined: the thread
\* blocks for ever, the lock throws std::system_error, or (a runtime whose
\* mutex does nothing, as a single-threaded one) the call has no effect.
RelockOutcomes == {"deadlock", "throw", "proceed"}

Running == dead = "no"

CanStart(t) == Running /\ th[t].pc = "idle" /\ nops < MaxOps

PromiseInit ==
    /\ PromiseIdle
    /\ hw = 0 /\ range_sz = 0 /\ part_sz = 0 /\ start_pos = 0
    /\ result = <<>> /\ ppc = "idle"
    /\ input = <<>> /\ mem = <<>> /\ argOrder = "unseen" /\ bad = 0
    /\ pc = "idle" /\ sorters = <<>> /\ futs = <<>> /\ results = <<>>
    /\ final = 0 /\ ret = "none" /\ emptyFront = FALSE

\* set( idx, value ) from its call to the end of its lock_guard block
SetLocked(t, idx, v) ==
    /\ CanStart(t)
    /\ producer = "alive"
    /\ m_mutex = 0
    /\ nops' = nops + 1
    /\ LET b == SetBody(m_result, idx, v) IN
         IF b.term
           THEN /\ dead' = "terminate"
                /\ UNCHANGED <<m_result, th, taken>>
           ELSE /\ m_result' = b.res
                /\ th' = [th EXCEPT ![t] = [pc |-> "set_after", fn |-> "set",
                             op |-> nops + 1, idx |-> idx, val |-> v,
                             notify |-> TRUE, ftmp |-> b.ftmp, out |-> <<"none", 0>>]]
                /\ taken' = IF b.ftmp # 0 THEN taken \cup {<<nops + 1, idx>>} ELSE taken
                /\ dead' = dead
    /\ UNCHANGED <<pvars, svars, producer, m_mutex, calls, funcCalls>>

\* void set_value( T &&value ): set( pos_value, std::move( value ) )
set_value(t) == \E v \in Values : SetLocked(t, pos_value, v)

\* void set_exception( std::exception_ptr ptr ): set( pos_eptr, ptr )
set_exception(t) == \E e \in Values : SetLocked(t, pos_eptr, e)

\* set, after its lock_guard block: notify and return, or call ftmp
SetFinish(t) ==
    /\ Running
    /\ th[t].pc = "set_after"
    /\ IF th[t].ftmp = 0
         THEN /\ calls' = calls
              /\ LET W == {w \in Threads : th[w].pc = "waiting"} IN
                   IF th[t].notify /\ W # {}
                     THEN \E w \in W :
                            th' = [th EXCEPT ![t] = IdleThread, ![w].pc = "woken"]
                     ELSE th' = [th EXCEPT ![t] = IdleThread]
         ELSE /\ calls' = calls \o Invocations(t, th[t])
              /\ th' = [th EXCEPT ![t] = IdleThread]
    /\ UNCHANGED <<pvars, svars, producer, m_result, m_mutex, funcCalls, taken, nops, dead>>

\* set_continuation( func ), from its call through `lock_guard( m_mutex )`
\* to the test `not is_ready( )`. The mutex stays locked.
ScLock(t) ==
    /\ CanStart(t)
    /\ m_mutex = 0
    /\ \E f \in Values :
         th' = [th EXCEPT ![t] = [pc |-> IF is_ready(m_result) THEN "sc_get" ELSE "sc_set",
                   fn |-> "cont", op |-> nops + 1, idx |-> pos_cont, val |-> f,
                   notify |-> FALSE, ftmp |-> 0, out |-> <<"none", 0>>]]
    /\ m_mutex' = t
    /\ nops' = nops + 1
    /\ UNCHANGED <<pvars, svars, producer, m_result, calls, funcCalls, taken, dead>>

\* set_continuation on a promise that is not ready: the call written
\* `result.set( pos_cont, ..., false )` is a call of this promise's set (the
\* continuation is stored in this promise's variant); set locks m_mutex,
\* which the thread holds. Where the lock has no effect set stores the
\* continuation, or moves the one already there into ftmp, whose call
\* `switch( pos_cont )` does not make; the null `result` is returned.
ScSet(t) ==
    /\ Running
    /\ th[t].pc = "sc_set"
    /\ \E o \in RelockOutcomes :
         \/ /\ o = "deadlock"
            /\ th' = [th EXCEPT ![t].pc = "blocked_in_set"]
            /\ UNCHANGED <<m_result, m_mutex, taken, dead>>
         \/ /\ o = "throw"
            /\ dead' = "terminate"
            /\ UNCHANGED <<m_result, m_mutex, taken, th>>
         \/ /\ o = "proceed"
            /\ LET b == SetBody(m_result, pos_cont, th[t].val) IN
                 /\ m_result' = b.res
                 /\ taken' = IF b.ftmp # 0 THEN taken \cup {<<th[t].op, pos_cont>>} ELSE taken
            /\ m_mutex' = 0
            /\ th' = [th EXCEPT ![t] = IdleThread]
            /\ dead' = dead
    /\ UNCHANGED <<pvars, svars, producer, calls, funcCalls, nops>>

\* set_continuation on a ready promise: get( ) calls wait( ), which locks
\* m_mutex, which the thread holds. Where the lock has no effect, get gives
\* the alternative alt_T to func, or rethrows; either way the next call is
\* made through `result`, a null std::shared_ptr: result->set_value with
\* what func returned, or result->set_exception in the catch block with what
\* func (threw) or get threw.
ScGet(t) ==
    /\ Running
    /\ th[t].pc = "sc_get"
    /\ \E o \in RelockOutcomes :
         \/ /\ o = "deadlock"
            /\ th' = [th EXCEPT ![t].pc = "blocked_in_get"]
            /\ UNCHANGED <<m_result, m_mutex, funcCalls, dead>>
         \/ /\ o = "throw"
            /\ dead' = "segv"
            /\ UNCHANGED <<m_result, m_mutex, funcCalls, th>>
         \/ /\ o = "proceed"
            /\ IF m_result.index = alt_T
                 THEN /\ \E x \in BOOLEAN :
                           funcCalls' = Append(funcCalls,
                             [op |-> th[t].op, f |-> th[t].val, arg |-> m_result.val,
                              held |-> TRUE, threw |-> x])
                      /\ m_result' = [m_result EXCEPT !.val = 0]
                 ELSE UNCHANGED <<funcCalls, m_result>>
            /\ m_mutex' = 0
            /\ dead' = "segv"
            /\ th' = th
    /\ UNCHANGED <<pvars, svars, producer, calls, taken, nops>>

\* what the caller has when the wait( ) inside fn has returned: wait( )
\* itself is done; has_value( ) and has_exception( ) return the comparison
\* of m_result.index( ) with 1 and with 2; get( ) has yet to read
AfterWait(fn, r) ==
    IF fn = "wait" THEN <<"ready", 0>>
    ELSE IF fn = "has_value" THEN <<"bool", IF r.index = alt_T THEN 1 ELSE 0>>
    ELSE IF fn = "has_exception" THEN <<"bool", IF r.index = alt_eptr THEN 1 ELSE 0>>
    ELSE <<"none", 0>>

\* wait( ), and the wait( ) at the start of get( ), has_value( ) and
\* has_exception( ): lock, test is_ready( ), and return or sleep on
\* m_condition (which unlocks)
WaitEnter(t, fn) ==
    /\ CanStart(t)
    /\ m_mutex = 0
    /\ nops' = nops + 1
    /\ th' = [th EXCEPT ![t] =
                [IdleThread EXCEPT !.fn = fn, !.op = nops + 1,
                   !.pc = IF ~is_ready(m_result) THEN "waiting"
                          ELSE IF fn = "get" THEN "get_read" ELSE "idle",
                   !.out = IF is_ready(m_result) THEN AfterWait(fn, m_result)
                           ELSE <<"none", 0>>]]
    /\ UNCHANGED <<pvars, svars, producer, m_result, m_mutex, calls, funcCalls, taken, dead>>

wait(t) == WaitEnter(t, "wait")

get(t) == WaitEnter(t, "get")

has_value(t) == WaitEnter(t, "has_value")

has_exception(t) == WaitEnter(t, "has_exception")

\* a notified waiter locks the mutex again and tests is_ready( )
WaitWoken(t) ==
    /\ Running
    /\ th[t].pc = "woken"
    /\ m_mutex = 0
    /\ th' = [th EXCEPT ![t].pc = IF ~is_ready(m_result) THEN "waiting"
                                  ELSE IF th[t].fn = "get" THEN "get_read" ELSE "idle",
                        ![t].out = IF is_ready(m_result)
                                     THEN AfterWait(th[t].fn, m_result)
                                     ELSE <<"none", 0>>]
    /\ UNCHANGED <<pvars, svars, producer, m_result, m_mutex, calls, funcCalls, taken, nops, dead>>

\* get( ) after wait( ), outside the lock: the alternative alt_T is moved
\* out and returned, anything else is rethrown as the alternative alt_eptr
GetRead(t) ==
    /\ Running
    /\ th[t].pc = "get_read"
    /\ IF m_result.index = alt_T
         THEN /\ th' = [th EXCEPT ![t].pc = "idle", ![t].out = <<"value", m_result.val>>]
              /\ m_result' = [m_result EXCEPT !.val = 0]
         ELSE /\ th' = [th EXCEPT ![t].pc = "idle", ![t].out = <<"throw", m_result.val>>]
              /\ m_result' = m_result
    /\ UNCHANGED <<pvars, svars, producer, m_mutex, calls, funcCalls, taken, nops, dead>>

\* packaged_task::operator( ) posts a task that keeps only a weak_ptr to
\* the promise and hands the promise to the caller. The executor may drop
\* the task unrun: the promise has no destructor and no member that marks
\* it abandoned, so nothing of it changes; no set follows.
TaskDropped ==
    /\ Running
    /\ producer = "alive"
    /\ \A t \in Threads : th[t].fn # "set"
    /\ producer' = "gone"
    /\ UNCHANGED <<pvars, svars, m_result, m_mutex, th, calls, funcCalls, taken,
                   nops, dead>>

PromiseNext ==
    \/ \E t \in Threads : set_value(t)
    \/ \E t \in Threads : set_exception(t)
    \/ \E t \in Threads : SetFinish(t)
    \/ \E t \in Threads : ScLock(t)
    \/ \E t \in Threads : ScSet(t)
    \/ \E t \in Threads : ScGet(t)
    \/ \E t \in Threads : wait(t)
    \/ \E t \in Threads : get(t)
    \/ \E t \in Threads : WaitWoken(t)
    \/ \E t \in Threads : GetRead(t)
    \/ \E t \in Threads : has_value(t)
    \/ \E t \in Threads : has_exception(t)
    \/ TaskDropped

PromiseSpec == PromiseInit /\ [][PromiseNext]_vars

\* A thread that is inside a member function and can go on does go on; the
\* calls themselves (set_value, wait, ...) are the callers' choice.
PromiseFairness ==
    \A t \in Threads :
        /\ WF_vars(SetFinish(t)) /\ WF_vars(ScSet(t)) /\ WF_vars(ScGet(t))
        /\ WF_vars(WaitWoken(t)) /\ WF_vars(GetRead(t))

PromiseFairSpec == PromiseSpec /\ PromiseFairness

\* ------------------------------------------------------------- claims
Range == SubSeq(mem, 1, range_sz)

Returned == pc = "done"

SomeError == \E i \in 1..Len(futs) : futs[i].st = "error"

\* C1: when fj_sort returns, [first, last) is in non-descending order, for
\* every input (comparator that does not throw), every hardware concurrency
\* >= 1 and every interleaving of the sort and merge tasks.
C1_SortedOnReturn ==
    (Returned /\ ret = "normal" /\ hw >= 1) => IsSorted(Range)

\* C1 witness: an unsorted range of five elements, cut into three segments
\* and merged twice, has come back.
C1_Witness ==
    /\ Returned /\ ret = "normal" /\ hw >= 1
    /\ range_sz = 5 /\ ~IsSorted(input)
    /\ Len(sorters) = 3 /\ Len(futs) = 5
    /\ \A i \in 1..Len(futs) : futs[i].st = "value"

\* C2: for hardware concurrency >= 1 the spans partition_range returns do
\* not overlap, each ends where the next starts, the first starts at first,
\* the last ends at last, and none reaches behind last.
C2_SpansCoverRange ==
    (ppc = "returned" /\ hw >= 1) =>
        /\ \A i \in 1..Len(result) : result[i][1] <= result[i][2]
        /\ \A i \in 1..(Len(result) - 1) : result[i][2] = result[i + 1][1]
        /\ \A i \in 1..Len(result) : result[i][2] <= range_sz
        /\ result # <<>> => result[1][1] = 0 /\ result[Len(result)][2] = range_sz
        /\ range_sz > 0 => result # <<>>

\* C3: for a non-empty range smaller than the hardware concurrency,
\* partition_range returns, with at least one and at most range_sz spans:
\* its result vector never holds more, and it reaches its return.
C3_SmallRangeSpans ==
    (hw >= 1 /\ 0 < range_sz /\ range_sz < hw) =>
        /\ Len(result) <= range_sz
        /\ ppc = "returned" => Len(result) >= 1

\* C4: when the comparator has failed in a segment sort or a merge, fj_sort
\* reports the failure to its caller: it does not return normally.
C4_FailureReported ==
    (Returned /\ SomeError) => ret = "exception"

\* C5: for an empty range fj_sort submits no task, creates and reads no
\* future (results.front( ) is not evaluated on an empty vector), waits on
\* nothing, and returns normally with the sequence as it was.
C5_EmptyRangeTouchesNoFuture ==
    (range_sz = 0 /\ hw >= 1) =>
        /\ sorters = <<>> /\ futs = <<>>
        /\ ~emptyFront
        /\ pc \in {"spawn", "done"}
        /\ ret \in {"none", "normal"}
        /\ mem = input

\* C6: when fj_sort has returned, every segment sort and every merge
\* continuation has finished, also when a task ended with an error.
C6_AllTasksFinishedOnReturn ==
    Returned => \A i \in 1..Len(futs) : futs[i].at = "done"

\* C7: the final content of [first, last) is fixed by the input alone (the
\* comparator and the hardware concurrency being fixed): it is the ordered
\* arrangement of the input, in every execution.
C7_FinalContentFixedByInput ==
    (Returned /\ ret = "normal" /\ hw >= 1) => Range = std_sort(input)

\* C8: the cell is single-assignment: once the variant holds a value or an
\* error, no call of set_value or set_exception changes what is stored, and
\* no step at all changes which alternative it holds.
C8_SingleAssignment ==
    [][is_ready(m_result) =>
         /\ m_result'.index = m_result.index
         /\ (\E t \in Threads : set_value(t) \/ set_exception(t))
               => m_result' = m_result]_vars

\* C8 witness: set_value or set_exception was called on a promise that
\* already held a value or an error; std::get<pos_cont> threw inside the
\* noexcept set and the process was terminated.
C8_Witness == dead = "terminate" /\ is_ready(m_result)

OpFinished(n) == \A t \in Threads : th[t].op # n

CallsOf(n) == {i \in 1..Len(calls) : calls[i].op = n}

\* C9: a set_value or set_exception that found a continuation registered
\* has called it exactly once when it returns, on the calling thread, with
\* the result that was set (alternative 0 for a value, 1 for an error).
C9_ContinuationCalledOnce ==
    \A p \in taken :
        (p[2] \in {pos_value, pos_eptr} /\ OpFinished(p[1])) =>
            /\ Cardinality(CallsOf(p[1])) = 1
            /\ \A i \in CallsOf(p[1]) :
                 calls[i].alt = (IF p[2] = pos_value THEN 0 ELSE 1)

\* C10: set_continuation on a promise that holds a value or an error does
\* not block: it is never stuck in get( ) on the mutex it holds itself, and
\* it does not end the process at the null `result` but returns a future
\* resolved with the function's outcome.
C10_ReadyContinuationNoRelock ==
    /\ \A t \in Threads : th[t].pc # "blocked_in_get"
    /\ dead # "segv"

\* C11: a continuation installed on an empty promise is run when the promise
\* is resolved with a value: once a set_value has moved the stored
\* continuation out, the function given to set_continuation is eventually
\* called and the derived promise set with its outcome.
C11_DerivedFutureResolved ==
    \A n \in 1..MaxOps :
        (<<n, pos_value>> \in taken)
            ~> (\E i \in 1..Len(calls) : calls[i].op = n /\ calls[i].func)

\* C12: no thread stays blocked in wait( ) on a promise that holds a value
\* or an error, however many threads wait (unless the process has ended).
C12_WaitersUnblocked ==
    \A t \in Threads :
        (th[t].pc = "waiting" /\ is_ready(m_result))
            ~> (th[t].pc # "waiting" \/ ~Running)

\* C13: get( ) returns the value after set_value and throws after
\* set_exception; has_value( ) is true exactly after set_value and
\* has_exception( ) exactly after set_exception.
C13_ReadTagIsWrittenTag ==
    \A t \in Threads :
        LET o == th[t].out IN
        /\ o[1] = "value" => m_result.index = pos_value
        /\ o[1] = "throw" => m_result.index = pos_eptr
        /\ (o[1] = "bool" /\ th[t].fn = "has_value")
              => (o[2] = 1 <=> m_result.index = pos_value)
        /\ (o[1] = "bool" /\ th[t].fn = "has_exception")
              => (o[2] = 1 <=> m_result.index = pos_eptr)

\* C14: once the producing task is gone and the promise is empty, a thread
\* waiting on it does not wait for ever: its wait ends (with a failure).
C14_AbandonedPromiseReported ==
    \A t \in Threads :
        (producer = "gone" /\ empty(m_result) /\ th[t].pc = "waiting")
            ~> (th[t].pc # "waiting")

\* C15: for the sequence 5,3,1,4,2 and a hardware concurrency of 2,
\* partition_range returns two spans, of 3 and 2 elements in some order,
\* one merge is made, and fj_sort leaves 1,2,3,4,5.
C15_ScenarioTwoSpansOneMerge ==
    (input = Scenario /\ hw = 2) =>
        /\ ppc = "returned" =>
             /\ Len(result) = 2
             /\ {result[i][2] - result[i][1] : i \in 1..Len(result)} = {2, 3}
        /\ Returned =>
             /\ Len(futs) - Len(sorters) = 1
             /\ Range = <<1, 2, 3, 4, 5>>

\* C16: no thread blocks inside a join: a continuation that has gone on to
\* r.get( ) finds the right future resolved.
C16_NoBlockingJoin ==
    \A k \in 1..Len(futs) :
        futs[k].at = "join" => IsReady(futs[futs[k].r])

\* the cells a task that is at work reads and writes: its span for a
\* segment sort, [l.begin, r.end) for a merge
Working(i) == futs[i].at \in {"running", "merging"}

WorkRange(i) ==
    IF futs[i].at = "running" THEN futs[i].span
    ELSE <<futs[futs[i].l].span[1], futs[futs[i].r].span[2]>>

SpansDisjoint(a, b) == a[2] <= b[1] \/ b[2] <= a[1]

\* C17: any two segment sorts or merges that are at work at the same time
\* work on disjoint index ranges.
C17_ConcurrentTasksDisjoint ==
    \A i, j \in 1..Len(futs) :
        (i # j /\ Working(i) /\ Working(j))
            => SpansDisjoint(WorkRange(i), WorkRange(j))

\* C17 witness: a merge is at work while a segment sort is still running
C17_Witness ==
    \E i, j \in 1..Len(futs) :
        /\ futs[i].at = "merging" /\ futs[j].at = "running"
        /\ WorkRange(i)[1] < WorkRange(i)[2]
        /\ WorkRange(j)[1] < WorkRange(j)[2]

Reduced == pc \in {"wait", "done"}

\* C18: every pair handed to the merger is adjacent (left.end = right.start),
\* a merge returns [left.start, right.end), and so the spans of every level
\* of the reduction follow one another and cover what the spans of
\* partition_range cover.
C18_LevelsContiguous ==
    /\ \A k \in 1..Len(futs) :
         /\ futs[k].at = "merging"
              => futs[futs[k].l].span[2] = futs[futs[k].r].span[1]
         /\ (futs[k].l # 0 /\ futs[k].st = "value")
              => futs[k].span = <<futs[futs[k].l].span[1], futs[futs[k].r].span[2]>>
    /\ Reduced =>
         \A n \in 1..Len(Passes(sorters)) :
             LET lvl == Passes(sorters)[n] IN
             (\A i \in 1..Len(lvl) : futs[lvl[i]].st = "value") =>
                 /\ \A i \in 1..(Len(lvl) - 1) :
                      futs[lvl[i]].span[2] = futs[lvl[i + 1]].span[1]
                 /\ lvl # <<>> =>
                      /\ futs[lvl[1]].span[1] = result[1][1]
                      /\ futs[lvl[Len(lvl)]].span[2] = result[Len(result)][2]

\* C18 witness: three segments were merged in two levels, all with success
C18_Witness ==
    /\ Reduced /\ Len(sorters) = 3 /\ Len(futs) = 5
    /\ \A i \in 1..Len(futs) : futs[i].st = "value"
    /\ futs[5].span[2] - futs[5].span[1] >= 3

\* C19: a pass of reduce_futures2 over N >= 1 futures gives ceil(N/2)
\* futures in order: output i joins the inputs 2i-1 and 2i (counted from 1),
\* and for an odd N the last input is the last output, unchanged.
C19_PassPairsInOrder ==
    Reduced =>
        \A n \in 1..(Len(Passes(sorters)) - 1) :
            LET in == Passes(sorters)[n]
                out == Passes(sorters)[n + 1] IN
            Len(in) >= 1 =>
                /\ Len(out) = (Len(in) + 1) \div 2
                /\ \A i \in 1..(Len(in) \div 2) :
                     /\ futs[out[i]].l = in[2 * i - 1]
                     /\ futs[out[i]].r = in[2 * i]
                /\ Len(in) % 2 = 1 => out[Len(out)] = in[Len(in)]
                /\ \A a \in 1..Len(in) :
                     Cardinality({i \in 1..Len(out) :
                         out[i] = in[a] \/ futs[out[i]].l = in[a]
                                        \/ futs[out[i]].r = in[a]}) = 1

\* C19 witness: a pass over five futures, then one over three
C19_Witness ==
    /\ Reduced /\ Len(sorters) = 5
    /\ Len(Passes(sorters)) >= 3
    /\ Len(Passes(sorters)[2]) = 3 /\ Len(Passes(sorters)[3]) = 2

\* C20: reduce_futures on N >= 1 futures ends with one future, and with no
\* failed task that future resolves to the span [first, last).
C20_FinalSpanIsWholeRange ==
    (Reduced /\ Len(sorters) >= 1) =>
        /\ Len(results) = 1
        /\ (final # 0 /\ futs[final].st = "value")
              => futs[final].span = <<0, range_sz>>

\* C21: a merge step whose left or right input holds an error makes no
\* in-place merge (it is never at the merger with such an input), its own
\* future gets an error, and so the root future holds an error whenever
\* one of the futures below it does.
C21_ErrorSkipsMerge ==
    /\ \A k \in 1..Len(futs) :
         futs[k].l # 0 =>
             /\ futs[k].at = "merging"
                  => /\ futs[futs[k].l].st = "value"
                     /\ futs[futs[k].r].st = "value"
             /\ (futs[k].at = "done" /\ (futs[futs[k].l].st = "error"
                                          \/ futs[futs[k].r].st = "error"))
                  => futs[k].st = "error"
    /\ (Reduced /\ final # 0 /\ IsReady(futs[final]) /\ SomeError)
          => futs[final].st = "error"

\* C21 witness: the comparator failed below the root, merge steps with a
\* failed left input and with a failed right input have ended with an error,
\* and the root future holds an error
C21_Witness ==
    /\ Reduced /\ Len(sorters) >= 3 /\ final # 0
    /\ futs[final].st = "error"
    /\ \A k \in 1..Len(futs) : futs[k].at = "done"
    /\ \E k \in 1..Len(futs) : futs[k].l # 0 /\ futs[futs[k].r].st = "error"
    /\ \E k \in 1..Len(futs) : futs[k].l # 0 /\ futs[futs[k].l].st = "error"

\* C22: a failure raised inside the function given to set_continuation is
\* captured as the error of the derived promise: it does not end the
\* process.
C22_TaskFailureCaptured ==
    \A i \in 1..Len(funcCalls) : funcCalls[i].threw => Running

\* C23: the mutex is not held while a stored continuation or the function
\* given to set_continuation runs, and no thread is stuck locking the mutex
\* it holds itself.
C23_NoCallbackUnderLock ==
    /\ \A i \in 1..Len(calls) : ~calls[i].held
    /\ \A i \in 1..Len(funcCalls) : ~funcCalls[i].held
    /\ \A t \in Threads : th[t].pc \notin {"blocked_in_set", "blocked_in_get"}

\* C24: a set_continuation call made while a continuation is registered
\* does not move the registered continuation out of the promise.
C24_RegisteredContinuationKept ==
    \A p \in taken : p[2] # pos_cont

\* C25: no segment sort and no merge writes a cell outside [first, last):
\* what lies behind the range is the same after every step.
C25_NothingWrittenOutsideRange ==
    [][\A i \in (range_sz + 1)..Len(mem) : mem'[i] = mem[i]]_vars

SpanOf(i) == SubSeq(mem, futs[i].span[1] + 1, futs[i].span[2])

\* C26: when a merge step is at its in-place merge, the tasks that produce
\* its left and right range are done and each range is in order; and the
\* range a merge has returned is in order.
C26_MergeInputsSorted ==
    \A k \in 1..Len(futs) :
        futs[k].l # 0 =>
            /\ futs[k].at = "merging" =>
                 /\ futs[futs[k].l].at = "done" /\ futs[futs[k].r].at = "done"
                 /\ IsSorted(SpanOf(futs[k].l))
                 /\ IsSorted(SpanOf(futs[k].r))
            /\ futs[k].st = "value" => IsSorted(SpanOf(k))

\* C26 witness: of three segments of a sequence that was not in order, the
\* first two are merged and the second merge is about to run
C26_Witness ==
    /\ Len(sorters) = 3 /\ Len(futs) = 5
    /\ ~IsSorted(SubSeq(input, 1, futs[4].span[2]))
    /\ futs[4].st = "value" /\ futs[4].span[2] - futs[4].span[1] >= 4
    /\ futs[5].at = "merging"

CountOf(s, v) == Cardinality({i \in 1..Len(s) : s[i] = v})

\* C27: at every moment [first, last) holds each value as often as the
\* input did: no element is lost, doubled or replaced from outside.
C27_RangeKeepsItsElements ==
    \A v \in Values : CountOf(Range, v) = CountOf(input, v)

\* C28: the divisor partition_range uses for the chunk size is at least 1:
\* the division is never made with a hardware concurrency of 0.
C28_DivisorAtLeastOne ==
    ppc # "entry" => hw >= 1

=============================================================================
